---- MODULE Spec2Model ----
(***************************************************************************)
(* ByteQueue (src/ByteQueue.cpp): byte queues built from 32-byte fragments *)
(* of one fixed pool.  A queue is the chain of fragments reached from its  *)
(* front fragment; the caller holds a pointer to the front fragment.       *)
(*                                                                         *)
(* Pointers into the pool are represented by the fragment's index in the   *)
(* pool (FragmentPool::getIndexInPool / getPointerAtIndex are inverse to   *)
(* each other), and the null pointer by -1.  The tracking bytes are C      *)
(* `char`s holding values in -1..63; they are modelled as integers, as on  *)
(* a build where char is signed (the code compares them with -1).          *)
(*                                                                         *)
(* The pool of the program has 64 fragments of 28 payload bytes each.      *)
(* The model is checked on a pool of NumFragments fragments of PayloadSize *)
(* payload bytes: the code only ever compares indices with "last index of  *)
(* the array" and "-1", so every branch is taken in the small pool too.    *)
(***************************************************************************)
EXTENDS Integers, Sequences, FiniteSets, TLC

\* ---------------------------------------------------------------- bounds
\* Number of fragments in the pool (64 in the program: 2048 / 32).
NumFragments == 3
\* Payload bytes per fragment (28 in the program).
PayloadSize == 2
\* Largest byte value the caller enqueues (255 in the program).
MaxByte == 1
\* Number of calls the caller makes in one run.
MaxCalls == 6
\* Round trip: largest number of bytes enqueued and then dequeued, and the
\* number of calls made on the other queue before the round trip.
MaxRoundTrip == 5
MaxSetup == 2
\* Reference workload: number of calls made before main runs.
MaxPrefix == 3
\* Recovery: number of calls made before the enqueue_byte that fails.
MaxFill == 5
\* destroy_queue: number of calls made before the call that is followed.
MaxBefore == 5

Fragments == 0 .. (NumFragments - 1)
Bytes == 0 .. MaxByte
\* The queue pointers the caller holds: q0 and q1 of main.
Queues == {0, 1}
nullptr == -1

VARIABLES
  data,              \* FragmentPool::data, seen as an array of fragments
  nextFreeFragment,  \* FragmentPool::nextFreeFragment, head of the free list
  handle,            \* the caller's queue pointers (q0, q1 of main)
  unread,            \* per handle: the bytes accepted by enqueue_byte and not
                     \* yet returned by dequeue_byte nor destroyed (a
                     \* specification variable: the queue the caller expects)
  offered,           \* per handle: the bytes passed to enqueue_byte, accepted
                     \* or not, minus one byte per byte returned by
                     \* dequeue_byte (a specification variable)
  last,              \* the last call: operation, handle, argument, returned
                     \* byte, error callback, whether the pool handed out a
                     \* fragment, number of fragments given back to the pool
  calls,             \* number of calls made so far
  rt,                \* the round trip of the caller of SpecRoundTrip: its
                     \* phase, the number of bytes, the bytes passed to
                     \* enqueue_byte, the bytes returned by dequeue_byte,
                     \* whether an enqueue_byte reported OutOfMemory
  run                \* the progress of the callers that follow a script
                     \* (SpecWorkload, SpecRecovery, SpecDestroy): the phase
                     \* or position reached and what the script has to
                     \* remember of the earlier calls

vars ==
  <<data, nextFreeFragment, handle, unread, offered, last, calls, rt, run>>

\* ------------------------------------------------------- fragment memory
\* The union `chunk`: a fragment is either a link of the free list ...
FreeChunk(nextFragment) == [next |-> nextFragment]

\* ... or the four tracking bytes and the payload of a fragment in use.
UsedChunk(B, N, f, b, bytes) ==
  [m_backFragmentIdx |-> B, m_nextFragmentIdx |-> N,
   m_frontItemIdx |-> f, m_backItemIdx |-> b, bytes |-> bytes]

\* Which member of the union a fragment holds.  The program keeps no such
\* tag: a fragment is a free-list link exactly while it is on the free list.
IsUsedChunk(c) == "next" \notin DOMAIN c

\* ByteQueueFragment::clearBytes: memset(chunk.whenUsed.bytes, 0, 28)
clearBytes == [i \in 0 .. (PayloadSize - 1) |-> 0]

\* isEmpty without the test "getBackItemIdx() < getFrontItemIdx()".
isEmpty_noItemOnly(c) == c.m_frontItemIdx = -1

\* isEmpty with the second test off by one.
isEmpty_strict(c) ==
  c.m_frontItemIdx = -1 \/ c.m_backItemIdx + 1 < c.m_frontItemIdx

\* ByteQueueFragment::isEmpty
isEmpty(c) == c.m_frontItemIdx = -1 \/ c.m_backItemIdx < c.m_frontItemIdx

\* isFrontItemAtEnd never true.
isFrontItemAtEnd_never(c) == FALSE

\* ByteQueueFragment::isFrontItemAtEnd
isFrontItemAtEnd(c) == c.m_frontItemIdx = PayloadSize - 1

\* isBackItemAtEnd true one item early.
isBackItemAtEnd_early(c) == c.m_backItemIdx = PayloadSize - 2

\* isBackItemAtEnd true as soon as the fragment holds an item.
isBackItemAtEnd_afterFirst(c) == c.m_backItemIdx >= 0

\* isBackItemAtEnd true one item late.
isBackItemAtEnd_late(c) == c.m_backItemIdx = PayloadSize

\* ByteQueueFragment::isBackItemAtEnd
isBackItemAtEnd(c) == c.m_backItemIdx = PayloadSize - 1

\* ByteQueueFragment::getNextFragment: index -1 is the null pointer
getNextFragment(c) ==
  IF c.m_nextFragmentIdx = -1 THEN nullptr ELSE c.m_nextFragmentIdx

\* ByteQueueFragment::getBackFragment
getBackFragment(c) ==
  IF c.m_backFragmentIdx = -1 THEN nullptr ELSE c.m_backFragmentIdx

\* getFrontByte reading the back item instead of the front item.
getFrontByte_backItem(c) == c.bytes[c.m_backItemIdx]

\* ByteQueueFragment::getFrontByte
getFrontByte(c) == c.bytes[c.m_frontItemIdx]

\* ------------------------------------------------------------------ pool
\* FragmentPool::FragmentPool: every fragment links to the next one, the
\* last one to nullptr, and the free list starts at fragment 0.
InitialData ==
  [i \in Fragments |->
     FreeChunk(IF i = NumFragments - 1 THEN nullptr ELSE i + 1)]

\* allocate popping the free list before it tests for the empty list: on
\* the empty list the head is overwritten (with what lies at address 0,
\* here fragment 0).
allocate_popBeforeCheck(d, head) ==
  IF head = nullptr
  THEN [ptr |-> nullptr, free |-> 0]
  ELSE [ptr |-> head, free |-> d[head].next]

\* allocate testing nextFreeFragment->chunk.next instead of
\* nextFreeFragment: it fails while one fragment is still free.
allocate_testNext(d, head) ==
  IF head = nullptr \/ d[head].next = nullptr
  THEN [ptr |-> nullptr, free |-> head]
  ELSE [ptr |-> head, free |-> d[head].next]

\* allocate without "nextFreeFragment = nextFreeFragment->chunk.next".
allocate_noPop(d, head) ==
  IF head = nullptr
  THEN [ptr |-> nullptr, free |-> head]
  ELSE [ptr |-> head, free |-> head]

\* allocate handing out fragment 0 when the free list is empty.
allocate_stealFirst(d, head) ==
  IF head = nullptr
  THEN [ptr |-> 0, free |-> nullptr]
  ELSE [ptr |-> head, free |-> d[head].next]

\* FragmentPool::allocate from the pool <<d, head>>: the fragment handed out
\* (nullptr and on_out_of_memory when the free list is empty) and the new
\* head of the free list.
allocate(d, head) ==
  IF head = nullptr
  THEN [ptr |-> nullptr, free |-> head]
  ELSE [ptr |-> head, free |-> d[head].next]

\* deallocate without "nextFreeFragment = ptr": the fragment is erased and
\* linked to the head of the free list, but is not made the head.
deallocate_keepHead(d, head, ptr) ==
  [data |-> [d EXCEPT ![ptr] = FreeChunk(head)], free |-> head]

\* deallocate that does not make the fragment the head of the free list
\* when the free list is empty.
deallocate_lostWhenExhausted(d, head, ptr) ==
  [data |-> [d EXCEPT ![ptr] = FreeChunk(head)],
   free |-> IF head = nullptr THEN nullptr ELSE ptr]

\* FragmentPool::deallocate: the fragment is erased, linked to the old head
\* of the free list and made the new head.
deallocate(d, head, ptr) ==
  [data |-> [d EXCEPT ![ptr] = FreeChunk(head)], free |-> ptr]

\* ------------------------------------------------------------ operations
\* The outcome of an operation: the pool after it, the caller's pointer
\* after it, the byte returned, the error callback invoked, whether the
\* pool handed out a fragment and how many fragments were deallocated.
Outcome(d, free, front, ret, err, alloc, freed) ==
  [data |-> d, free |-> free, front |-> front, ret |-> ret, err |-> err,
   alloc |-> alloc, freed |-> freed]

\* create_queue() on the pool <<d, head>>.
create_queue(d, head) ==
  LET a == allocate(d, head)
      newFragment == a.ptr
  IN
  IF newFragment = nullptr
  THEN Outcome(d, a.free, nullptr, 0, "OutOfMemory", FALSE, 0)
  ELSE Outcome([d EXCEPT ![newFragment] =
                  UsedChunk(newFragment, -1, -1, -1, clearBytes)],
               a.free, newFragment, 0, "none", TRUE, 0)

\* enqueue_byte from "currentBack = front->getBackFragment()" on: front is
\* not nullptr; created tells whether this call created the queue.
enqueue_at_back(d, head, front, byte, created) ==
  LET currentBack == getBackFragment(d[front]) IN
  IF isBackItemAtEnd(d[currentBack])
  THEN \* the back fragment is full: allocate a new back fragment
    LET a == allocate(d, head)
        newBack == a.ptr
    IN
    IF newBack = nullptr
    THEN Outcome(d, a.free, front, 0, "OutOfMemory", created, 0)
    ELSE LET d1 == [d EXCEPT ![front].m_backFragmentIdx = newBack]
             d2 == [d1 EXCEPT ![currentBack].m_nextFragmentIdx = newBack]
             d3 == [d2 EXCEPT ![newBack] =
                      UsedChunk(-1, -1, -1, 0,
                                [clearBytes EXCEPT ![0] = byte])]
         IN Outcome(d3, a.free, front, 0, "none", TRUE, 0)
  ELSE IF d[front].m_frontItemIdx = -1
  THEN \* the front fragment has no byte yet
    Outcome([d EXCEPT ![front].m_frontItemIdx = 0,
                      ![front].m_backItemIdx = 0,
                      ![front].bytes[0] = byte],
            head, front, 0, "none", created, 0)
  ELSE \* room left in the back fragment
    LET b == d[currentBack].m_backItemIdx + 1 IN
    Outcome([d EXCEPT ![currentBack].m_backItemIdx = b,
                      ![currentBack].bytes[b] = byte],
            head, front, 0, "none", created, 0)

\* enqueue_byte(front, byte) on the pool <<d, head>>.
enqueue_byte(d, head, front, byte) ==
  IF front = nullptr
  THEN LET c == create_queue(d, head) IN
       IF c.front = nullptr
       THEN c                        \* no memory: give up
       ELSE enqueue_at_back(c.data, c.free, c.front, byte, TRUE)
  ELSE enqueue_at_back(d, head, front, byte, FALSE)

\* promoteNextFragment without newFront->setFrontItemIdx(0).
promoteNextFragment_keepFrontItem(d, front, newFront) ==
  [d EXCEPT ![newFront].m_backFragmentIdx = d[front].m_backFragmentIdx]

\* promoteNextFragment without
\* newFront->setBackFragmentIdx(front->getBackFragmentIdx()).
promoteNextFragment_keepBack(d, front, newFront) ==
  [d EXCEPT ![newFront].m_frontItemIdx = 0]

\* promoteNextFragment with newFront->setFrontItemIdx(1).
promoteNextFragment_skipItem(d, front, newFront) ==
  [d EXCEPT ![newFront].m_backFragmentIdx = d[front].m_backFragmentIdx,
            ![newFront].m_frontItemIdx = 1]

\* dequeue_byte, the next fragment becomes the front fragment: it takes
\* over the index of the back fragment and its front item is item 0.
promoteNextFragment(d, front, newFront) ==
  [d EXCEPT ![newFront].m_backFragmentIdx = d[front].m_backFragmentIdx,
            ![newFront].m_frontItemIdx = 0]

\* dequeue_byte from "dequeuedByte = front->getFrontByte()" on: the front
\* fragment is not empty.
dequeue_front(d, head, front) ==
  LET dequeuedByte == getFrontByte(d[front]) IN
  IF isFrontItemAtEnd(d[front])
  THEN IF d[front].m_nextFragmentIdx = -1
       THEN LET r == deallocate(d, head, front) IN
            Outcome(r.data, r.free, nullptr, dequeuedByte, "none", FALSE, 1)
       ELSE LET newFront == getNextFragment(d[front])
                r == deallocate(promoteNextFragment(d, front, newFront),
                                head, front)
            IN Outcome(r.data, r.free, newFront, dequeuedByte, "none",
                       FALSE, 1)
  ELSE LET d1 == [d EXCEPT ![front].m_frontItemIdx = @ + 1] IN
       IF isEmpty(d1[front])
       THEN LET r == deallocate(d1, head, front) IN
            Outcome(r.data, r.free, nullptr, dequeuedByte, "none", FALSE, 1)
       ELSE Outcome(d1, head, front, dequeuedByte, "none", FALSE, 0)

\* dequeue_byte giving an empty front fragment back to the pool when it
\* reports the empty queue.
dequeue_byte_freeEmpty(d, head, front) ==
  IF front = nullptr
  THEN Outcome(d, head, front, 0, "EmptyQueue", FALSE, 0)
  ELSE IF isEmpty(d[front])
  THEN LET r == deallocate(d, head, front) IN
       Outcome(r.data, r.free, nullptr, 0, "EmptyQueue", FALSE, 1)
  ELSE dequeue_front(d, head, front)

\* dequeue_byte(front) on the pool <<d, head>>.
dequeue_byte(d, head, front) ==
  IF front = nullptr \/ isEmpty(d[front])
  THEN \* on_illegal_operation(); return 0
    Outcome(d, head, front, 0, "EmptyQueue", FALSE, 0)
  ELSE dequeue_front(d, head, front)

\* The loop of destroy_queue, freed fragments counted:
\* while(front != nullptr) { fragmentToDeallocate = front;
\*   front = front->getNextFragment(); deallocate(fragmentToDeallocate); }
RECURSIVE destroy_loop(_, _, _, _)
destroy_loop(d, head, front, freed) ==
  IF front = nullptr
  THEN Outcome(d, head, nullptr, 0, "none", FALSE, freed)
  ELSE LET r == deallocate(d, head, front) IN
       destroy_loop(r.data, r.free, getNextFragment(d[front]), freed + 1)

\* destroy_queue deallocating the front fragment only (an if for the while).
destroy_queue_frontOnly(d, head, front) ==
  IF front = nullptr
  THEN Outcome(d, head, nullptr, 0, "none", FALSE, 0)
  ELSE LET r == deallocate(d, head, front) IN
       Outcome(r.data, r.free, nullptr, 0, "none", FALSE, 1)

\* destroy_queue with a do-while loop: on an empty pointer it calls
\* deallocate(nullptr), which makes nullptr the head of the free list.
destroy_queue_doWhile(d, head, front) ==
  IF front = nullptr
  THEN Outcome(d, nullptr, nullptr, 0, "none", FALSE, 1)
  ELSE destroy_loop(d, head, front, 0)

\* destroy_queue(front) on the pool <<d, head>>.
destroy_queue(d, head, front) == destroy_loop(d, head, front, 0)

\* ---------------------------------------------------------------- caller
\* What the caller sees of a call.
Call(op, q, arg, r) ==
  [op |-> op, q |-> q, arg |-> arg, ret |-> r.ret, err |-> r.err,
   alloc |-> r.alloc, freed |-> r.freed]

\* The state after the static pool is constructed, before main runs.
InitPool ==
  /\ data = InitialData
  /\ nextFreeFragment = 0
  /\ handle = [q \in Queues |-> nullptr]
  /\ unread = [q \in Queues |-> << >>]
  /\ offered = [q \in Queues |-> << >>]
  /\ last = [op |-> "init", q |-> 0, arg |-> 0, ret |-> 0, err |-> "none",
             alloc |-> FALSE, freed |-> 0]
  /\ calls = 0

NoRoundTrip ==
  [phase |-> "off", n |-> 0, sent |-> << >>, got |-> << >>, failed |-> FALSE]

\* No script is followed.
NoRun == [phase |-> "off"]

Init == InitPool /\ rt = NoRoundTrip /\ run = NoRun

\* The pool and the caller's pointer after a call with outcome r.
Returns(q, r) ==
  /\ data' = r.data
  /\ nextFreeFragment' = r.free
  /\ handle' = [handle EXCEPT ![q] = r.front]

\* The tail of a sequence, of the empty sequence the empty sequence.
Rest(s) == IF s = << >> THEN << >> ELSE Tail(s)

\* q = create_queue(); for a pointer q that holds no queue (the caller does
\* not overwrite the only pointer to a queue).
Create(q) ==
  /\ handle[q] = nullptr
  /\ LET r == create_queue(data, nextFreeFragment) IN
     /\ Returns(q, r)
     /\ unread' = [unread EXCEPT ![q] = << >>]
     /\ offered' = [offered EXCEPT ![q] = << >>]
     /\ last' = Call("create", q, 0, r)

\* enqueue_byte(q, byte);
Enqueue(q, byte) ==
  LET r == enqueue_byte(data, nextFreeFragment, handle[q], byte) IN
  /\ Returns(q, r)
  /\ unread' = [unread EXCEPT
                  ![q] = IF r.err = "none" THEN Append(@, byte) ELSE @]
  /\ offered' = [offered EXCEPT ![q] = Append(@, byte)]
  /\ last' = Call("enqueue", q, byte, r)

\* dequeue_byte(q);
Dequeue(q) ==
  LET r == dequeue_byte(data, nextFreeFragment, handle[q]) IN
  /\ Returns(q, r)
  /\ unread' = [unread EXCEPT ![q] = IF r.err = "none" THEN Rest(@) ELSE @]
  /\ offered' = [offered EXCEPT ![q] = IF r.err = "none" THEN Rest(@) ELSE @]
  /\ last' = Call("dequeue", q, 0, r)

\* destroy_queue(q);
Destroy(q) ==
  LET r == destroy_queue(data, nextFreeFragment, handle[q]) IN
  /\ Returns(q, r)
  /\ unread' = [unread EXCEPT ![q] = << >>]
  /\ offered' = [offered EXCEPT ![q] = << >>]
  /\ last' = Call("destroy", q, 0, r)

\* A caller that makes up to MaxCalls calls, in any order, on its pointers.
OneMoreCall ==
  calls < MaxCalls /\ calls' = calls + 1 /\ UNCHANGED <<rt, run>>

CallCreate(q) == OneMoreCall /\ Create(q)

CallEnqueue(q, byte) == OneMoreCall /\ Enqueue(q, byte)

CallDequeue(q) == OneMoreCall /\ Dequeue(q)

CallDestroy(q) == OneMoreCall /\ Destroy(q)

Next ==
  \E q \in Queues :
    \/ CallCreate(q)
    \/ \E byte \in Bytes : CallEnqueue(q, byte)
    \/ CallDequeue(q)
    \/ CallDestroy(q)

Spec == Init /\ [][Next]_vars

\* ------------------------------------------------------------- round trip
\* A caller that, after up to MaxSetup calls on q1, enqueues n bytes into q0
\* (an empty pointer, or a queue it creates first) and then calls
\* dequeue_byte(q0) n times.
InitRoundTrip ==
  /\ InitPool
  /\ \E n \in 1 .. MaxRoundTrip :
       rt = [phase |-> "setup", n |-> n, sent |-> << >>, got |-> << >>,
             failed |-> FALSE]
  /\ run = NoRun

RoundTripSetup ==
  /\ rt.phase = "setup"
  /\ calls < MaxSetup
  /\ calls' = calls + 1
  /\ UNCHANGED <<rt, run>>
  /\ \/ Create(1)
     \/ \E byte \in Bytes : Enqueue(1, byte)
     \/ Dequeue(1)
     \/ Destroy(1)

\* The round trip starts on a queue that create_queue returned (run notes
\* it), and not on an empty pointer.
RoundTripCreate ==
  /\ rt.phase = "setup"
  /\ Create(0)
  /\ rt' = [rt EXCEPT !.phase = "enqueue"]
  /\ run' = [phase |-> "created"]
  /\ UNCHANGED calls

RoundTripEnqueue(byte) ==
  /\ rt.phase \in {"setup", "enqueue"}
  /\ Enqueue(0, byte)
  /\ rt' = [rt EXCEPT
              !.sent = Append(@, byte),
              !.failed = @ \/ last'.err = "OutOfMemory",
              !.phase = IF Len(rt.sent) + 1 = rt.n
                        THEN "dequeue" ELSE "enqueue"]
  /\ UNCHANGED <<calls, run>>

RoundTripDequeue ==
  /\ rt.phase = "dequeue"
  /\ Dequeue(0)
  /\ rt' = [rt EXCEPT
              !.got = Append(@, last'.ret),
              !.phase = IF Len(rt.got) + 1 = rt.n THEN "done" ELSE "dequeue"]
  /\ UNCHANGED <<calls, run>>

NextRoundTrip ==
  \/ RoundTripSetup
  \/ RoundTripCreate
  \/ \E byte \in Bytes : RoundTripEnqueue(byte)
  \/ RoundTripDequeue

SpecRoundTrip == InitRoundTrip /\ [][NextRoundTrip]_vars

\* ------------------------------------------------------ views of the state
\* The fragments of a queue, front first: the front fragment, then the
\* fragment each m_nextFragmentIdx names, as far as these are fragments in
\* use (and no further than fuel fragments).
RECURSIVE chainFrom(_, _, _)
chainFrom(d, front, fuel) ==
  IF front = nullptr \/ fuel = 0 \/ ~IsUsedChunk(d[front])
  THEN << >>
  ELSE <<front>> \o chainFrom(d, getNextFragment(d[front]), fuel - 1)

Chain(q) == chainFrom(data, handle[q], NumFragments + 1)

\* The free list, head first, as far as its links are free-list links.
RECURSIVE freeListFrom(_, _, _)
freeListFrom(d, head, fuel) ==
  IF head = nullptr \/ fuel = 0 \/ IsUsedChunk(d[head])
  THEN << >>
  ELSE <<head>> \o freeListFrom(d, d[head].next, fuel - 1)

FreeList == freeListFrom(data, nextFreeFragment, NumFragments + 1)

Range(s) == {s[i] : i \in 1 .. Len(s)}

\* The bytes that dequeue_byte returns when it is called on the pointer
\* front again and again until it reports an empty queue (at most fuel
\* times).
RECURSIVE drain(_, _, _, _)
drain(d, head, front, fuel) ==
  LET r == dequeue_byte(d, head, front) IN
  IF fuel = 0 \/ r.err # "none"
  THEN << >>
  ELSE <<r.ret>> \o drain(r.data, r.free, r.front, fuel - 1)

\* The contents of queue q: what draining it now would return.
Contents(q) ==
  drain(data, nextFreeFragment, handle[q], NumFragments * PayloadSize + 1)

\* ------------------------------------------------------------------ claims
\* C1 as stated: at every moment the contents of a queue are the bytes
\* passed to enqueue_byte on it, in call order, less the bytes already
\* returned by dequeue_byte (no byte passed to enqueue_byte is lost).
C1_EveryPassedByteIsQueued ==
  \A q \in Queues : Contents(q) = offered[q]

\* C1 (FIFO order), amended: at every moment the contents of a queue, i.e.
\* the bytes successive dequeue_byte calls return, are the bytes passed to
\* the enqueue_byte calls on it that did not fail with OutOfMemory, in call
\* order, less the bytes already returned; in particular each successful
\* dequeue_byte returns the oldest unread byte.
C1_FifoOrder ==
  \A q \in Queues : Contents(q) = unread[q]

\* A dequeue_byte moved the front of a queue to its next fragment while
\* bytes are unread in both queues.
C1_Witness ==
  /\ last.op = "dequeue" /\ last.err = "none" /\ last.freed = 1
  /\ handle[last.q] # nullptr
  /\ \A q \in Queues : unread[q] # << >>

\* C2 as stated: for every n >= 1, n calls of enqueue_byte followed by n
\* calls of dequeue_byte return the n bytes in order and leave the pointer
\* empty.
C2_RoundTripEveryN ==
  rt.phase = "done" => (rt.got = rt.sent /\ handle[0] = nullptr)

\* C2 (round trip), amended: for every n >= 1 such that none of the n
\* enqueue_byte calls reports OutOfMemory, the n dequeue_byte calls that
\* follow return the same n bytes in the same order, none of them reports
\* EmptyQueue before the n-th, the pointer is not empty before the n-th and
\* is empty right after it, whether or not n exceeds the payload of one
\* fragment.
C2_RoundTrip ==
  ~rt.failed =>
    /\ rt.phase = "dequeue" =>
         /\ handle[0] # nullptr
         /\ rt.got = SubSeq(rt.sent, 1, Len(rt.got))
         /\ (rt.got # << >> => last.err = "none")
    /\ rt.phase = "done" =>
         /\ rt.got = rt.sent
         /\ handle[0] = nullptr
         /\ last.err = "none"

\* A round trip of more bytes than one fragment holds is done, without
\* OutOfMemory, while q1 holds a fragment.
C2_Witness ==
  /\ rt.phase = "done"
  /\ ~rt.failed
  /\ rt.n > PayloadSize
  /\ handle[1] # nullptr
  /\ \E i \in 1 .. rt.n : rt.sent[i] # rt.sent[1]

\* The call just made (the step from the unprimed to the primed state) is
\* the operation op on the pointer q.
Called(op, q) == last'.op = op /\ last'.q = q /\ calls' = calls + 1

\* The pool and the caller's pointers are left as they were.
PoolUnchanged ==
  /\ data' = data
  /\ nextFreeFragment' = nextFreeFragment
  /\ handle' = handle

\* create_queue or enqueue_byte on q has to allocate: the pointer is empty,
\* or the back fragment of the queue is full.
NeedsFragment(q) ==
  \/ handle[q] = nullptr
  \/ data[data[handle[q]].m_backFragmentIdx].m_backItemIdx = PayloadSize - 1

\* C3 (OutOfMemory is a no-op): a create_queue or enqueue_byte that needs a
\* fragment while the free list is empty reports OutOfMemory and leaves the
\* pointer, every fragment and the free list as they were (the byte is not
\* queued); and no call that reports OutOfMemory changes any of them.
C3_OutOfMemoryNoOp ==
  [][\A q \in Queues :
       /\ ( /\ Called("create", q) \/ Called("enqueue", q)
            /\ nextFreeFragment = nullptr
            /\ NeedsFragment(q) )
          => (last'.err = "OutOfMemory" /\ PoolUnchanged
              /\ unread' = unread)
       /\ last'.err = "OutOfMemory" => (PoolUnchanged /\ unread' = unread)
    ]_vars

\* enqueue_byte reported OutOfMemory on a queue whose back fragment is full,
\* while the other queue holds the rest of the pool.
C3_Witness ==
  /\ last.op = "enqueue" /\ last.err = "OutOfMemory"
  /\ handle[last.q] # nullptr
  /\ \E p \in Queues \ {last.q} : handle[p] # nullptr

\* The front fragment of q is logically empty when the call starts.
EmptyAtEntry(q) ==
  \/ handle[q] = nullptr
  \/ data[handle[q]].m_frontItemIdx = -1
  \/ data[handle[q]].m_backItemIdx < data[handle[q]].m_frontItemIdx

\* C4 (EmptyQueue is a no-op): dequeue_byte on an empty pointer, or on a
\* pointer whose front fragment is logically empty, returns 0, reports
\* EmptyQueue, deallocates nothing and leaves the pointer, every fragment
\* and the free list as they were.
C4_EmptyQueueNoOp ==
  [][\A q \in Queues :
       (Called("dequeue", q) /\ EmptyAtEntry(q))
         => /\ last'.ret = 0
            /\ last'.err = "EmptyQueue"
            /\ last'.freed = 0
            /\ PoolUnchanged
            /\ unread' = unread
    ]_vars

\* dequeue_byte reported EmptyQueue on a queue that create_queue returned
\* and that has no byte, while the other queue has bytes.
C4_Witness ==
  /\ last.op = "dequeue" /\ last.err = "EmptyQueue" /\ last.ret = 0
  /\ handle[last.q] # nullptr
  /\ \E p \in Queues \ {last.q} : unread[p] # << >>

\* Number of fragments in the chains of the queues of S.
RECURSIVE InUse(_)
InUse(S) ==
  IF S = {}
  THEN 0
  ELSE LET q == CHOOSE x \in S : TRUE IN Len(Chain(q)) + InUse(S \ {q})

\* C5 (capacity bound): the queues never hold more than NumFragments
\* fragments together; a create_queue or enqueue_byte that needs a fragment
\* reports OutOfMemory when NumFragments fragments are in use, and gets its
\* fragment when fewer are.
C5_CapacityBound ==
  /\ [](InUse(Queues) <= NumFragments)
  /\ [][\A q \in Queues :
          ( /\ Called("create", q) \/ Called("enqueue", q)
            /\ NeedsFragment(q) )
            => IF InUse(Queues) = NumFragments
               THEN last'.err = "OutOfMemory" /\ ~last'.alloc
               ELSE last'.err = "none" /\ last'.alloc
       ]_vars

\* With every fragment in use, an allocation failed.
C5_Witness ==
  /\ last.err = "OutOfMemory"
  /\ InUse(Queues) = NumFragments
  /\ \A q \in Queues : handle[q] # nullptr

NoDuplicates(s) == \A i, j \in 1 .. Len(s) : s[i] = s[j] => i = j

\* Whether fragment f is on the free list, and the queues whose chain it
\* is in.
IsFree(f) == f \in Range(FreeList)

Owners(f) == {q \in Queues : f \in Range(Chain(q))}

\* C6 (slot ownership partition): the free list is acyclic and ends in
\* nullptr, every chain is acyclic and ends in "no next fragment", and
\* every fragment is either on the free list (once) or in the chain of
\* exactly one queue (once), never both and never neither; a fragment holds
\* a free-list link exactly when it is on the free list.
C6_OwnershipPartition ==
  /\ NoDuplicates(FreeList)
  /\ IF FreeList = << >>
     THEN nextFreeFragment = nullptr
     ELSE data[FreeList[Len(FreeList)]].next = nullptr
  /\ \A q \in Queues :
       /\ NoDuplicates(Chain(q))
       /\ IF Chain(q) = << >>
          THEN handle[q] = nullptr
          ELSE data[Chain(q)[Len(Chain(q))]].m_nextFragmentIdx = -1
  /\ \A f \in Fragments :
       /\ IF IsFree(f) THEN Owners(f) = {} ELSE Cardinality(Owners(f)) = 1
       /\ IsUsedChunk(data[f]) <=> ~IsFree(f)
  /\ Len(FreeList) + InUse(Queues) = NumFragments

\* The front fragment of a queue of two fragments went back to the free
\* list, while both queues hold fragments.
C6_Witness ==
  /\ last.op = "dequeue" /\ last.freed = 1
  /\ FreeList # << >>
  /\ \A q \in Queues : handle[q] # nullptr

\* C7 as stated: a pointer that is not empty refers to a queue that holds
\* at least one unread byte.
C7_NoMemoryWithoutBytes ==
  \A q \in Queues : handle[q] # nullptr => unread[q] # << >>

\* Queue q owns a fragment and holds no unread byte.
HeldEmpty(q) == handle[q] # nullptr /\ unread[q] = << >>

\* C7 (no held memory without live bytes), amended: a pointer that is not
\* empty refers to a queue that holds at least one unread byte, unless the
\* queue is one that create_queue returned and that has not received a byte
\* since: such a queue owns exactly one fragment, with both item indices -1.
\* enqueue_byte, dequeue_byte and destroy_queue never leave the queue they
\* are called on with a fragment and no unread byte, except a dequeue_byte
\* that fails on such a fresh queue.
C7_MemoryWithoutBytesOnlyFresh ==
  /\ [](\A q \in Queues :
          HeldEmpty(q) =>
            data[handle[q]] = UsedChunk(handle[q], -1, -1, -1, clearBytes))
  /\ [][\A q \in Queues :
          HeldEmpty(q)' =>
            \/ Called("create", q) /\ last'.err = "none"
            \/ HeldEmpty(q) /\ last'.q # q
            \/ HeldEmpty(q) /\ Called("dequeue", q)
                 /\ last'.err = "EmptyQueue"
       ]_vars

\* One queue was drained by dequeue_byte and gave its fragment back, while
\* the other, returned by create_queue, holds a fragment and no byte.
C7_Witness ==
  /\ last.op = "dequeue" /\ last.err = "none" /\ last.freed = 1
  /\ handle[last.q] = nullptr
  /\ \E p \in Queues \ {last.q} : HeldEmpty(p)

\* The pool <<d, head>> satisfies n create_queue calls in a row.
RECURSIVE CanCreate(_, _, _)
CanCreate(d, head, n) ==
  \/ n = 0
  \/ LET r == create_queue(d, head) IN
     r.err = "none" /\ CanCreate(r.data, r.free, n - 1)

\* C8 (reclamation on drain): after a successful dequeue_byte on q, a
\* fragment was deallocated exactly if the byte read was the last unread
\* byte of the front fragment, so every fragment q still owns holds an
\* unread byte; if the byte was the last unread byte of q, the pointer is
\* empty and every fragment not owned by another queue is on the free list;
\* if then no queue is live, the pool satisfies NumFragments create_queue
\* calls.
C8_ReclamationOnDrain ==
  (last.op = "dequeue" /\ last.err = "none") =>
    LET q == last.q IN
    /\ handle[q] # nullptr =>
         /\ 0 <= data[handle[q]].m_frontItemIdx
         /\ data[handle[q]].m_frontItemIdx <= data[handle[q]].m_backItemIdx
         /\ last.freed = IF data[handle[q]].m_frontItemIdx = 0 THEN 1 ELSE 0
    /\ Len(Chain(q)) <= Len(unread[q])
    /\ unread[q] = << >> =>
         /\ handle[q] = nullptr
         /\ last.freed = 1
         /\ Len(FreeList) = NumFragments - InUse(Queues \ {q})
         /\ (\A p \in Queues : handle[p] = nullptr) =>
              CanCreate(data, nextFreeFragment, NumFragments)

\* The last byte of a queue was dequeued and no queue is live: the whole
\* pool is free again.
C8_Witness ==
  /\ last.op = "dequeue" /\ last.err = "none" /\ last.freed = 1
  /\ unread[last.q] = << >>
  /\ \A p \in Queues : handle[p] = nullptr
  /\ Len(FreeList) = NumFragments
  /\ FreeList[1] # 0

\* C9 (destroy_queue frees the whole chain): after destroy_queue(q) the
\* pointer is empty, every fragment of the chain of q is on the free list,
\* the free list has grown by the length of the chain (one deallocation
\* per fragment), and the pointers and fragments of the other queues are as
\* they were.
C9_DestroyFreesChain ==
  [][\A q \in Queues :
       Called("destroy", q) =>
         /\ handle'[q] = nullptr
         /\ Range(Chain(q)) \subseteq Range(FreeList')
         /\ Len(FreeList') = Len(FreeList) + Len(Chain(q))
         /\ last'.freed = Len(Chain(q))
         /\ \A p \in Queues \ {q} :
              /\ handle'[p] = handle[p]
              /\ \A f \in Range(Chain(p)) : data'[f] = data[f]
              /\ unread'[p] = unread[p]
    ]_vars

\* destroy_queue freed a queue of two fragments while the other queue
\* holds bytes.
C9_Witness ==
  /\ last.op = "destroy" /\ last.freed = 2
  /\ handle[last.q] = nullptr
  /\ \E p \in Queues \ {last.q} : unread[p] # << >>

\* C10 (idempotent destroy): destroy_queue on an empty pointer, and
\* destroy_queue on the pointer that the call before it destroyed or
\* drained, deallocates nothing and leaves the pointer empty and every
\* fragment and the free list as they were.
C10_DestroyIdempotent ==
  [][\A q \in Queues :
       ( /\ Called("destroy", q)
         /\ \/ handle[q] = nullptr
            \/ last.op = "destroy" /\ last.q = q
            \/ /\ last.op = "dequeue" /\ last.err = "none" /\ last.q = q
               /\ unread[q] = << >> )
         => /\ handle'[q] = nullptr
            /\ handle[q] = nullptr
            /\ last'.freed = 0
            /\ PoolUnchanged
    ]_vars

\* destroy_queue on an empty pointer, while the other queue holds two
\* fragments and the free list holds a fragment that an earlier call gave
\* back (the fragments are first handed out in ascending order).
C10_Witness ==
  /\ last.op = "destroy" /\ last.freed = 0
  /\ FreeList # << >> /\ FreeList[1] # NumFragments - 1
  /\ \E p \in Queues \ {last.q} : Len(Chain(p)) = 2

\* C11 (isolation): a call on the pointer q, whatever it is and whether it
\* succeeds or fails, leaves every other pointer p and the fragments of the
\* queue of p as they were, so that draining p after the call returns the
\* unread bytes of p, which only calls on p change (unread[p]); and a
\* successful dequeue_byte on q returns a byte that was enqueued to q and is
\* unread there, the oldest one.
C11_Isolation ==
  /\ [](\A p \in Queues \ {last.q} : Contents(p) = unread[p])
  /\ [][\A q \in Queues : \A p \in Queues \ {q} :
          (last'.q = q /\ calls' = calls + 1) =>
            /\ handle'[p] = handle[p]
            /\ unread'[p] = unread[p]
            /\ Chain(p)' = Chain(p)
            /\ \A f \in Range(Chain(p)) : data'[f] = data[f]
            /\ (last'.op = "dequeue" /\ last'.err = "none") =>
                 /\ unread[q] # << >>
                 /\ last'.ret \in Range(unread[q])
                 /\ last'.ret = unread[q][1]
       ]_vars

\* enqueue_byte on an empty pointer was handed fragment 0, which an earlier
\* call gave back to the pool (it was in use when the other queue got
\* fragment 1), while the other queue is live and holds an unread byte.
C11_Witness ==
  /\ last.op = "enqueue" /\ last.err = "none" /\ last.alloc
  /\ Chain(last.q) = <<0>>
  /\ \E p \in Queues \ {last.q} : handle[p] = 1 /\ unread[p] # << >>

\* ------------------------------------------------------- reference workload
\* The calls of main, in order: the operation, the pointer (0 for q0, 1 for
\* q1) and the byte passed.
MainCall(op, q, arg) == [op |-> op, q |-> q, arg |-> arg]

MainScript ==
  << MainCall("create", 0, 0),  MainCall("enqueue", 0, 0),
     MainCall("enqueue", 0, 1), MainCall("create", 1, 0),
     MainCall("enqueue", 1, 3), MainCall("enqueue", 0, 2),
     MainCall("enqueue", 1, 4), MainCall("dequeue", 0, 0),
     MainCall("dequeue", 0, 0), MainCall("enqueue", 0, 5),
     MainCall("enqueue", 1, 6), MainCall("dequeue", 0, 0),
     MainCall("dequeue", 0, 0), MainCall("destroy", 0, 0),
     MainCall("dequeue", 1, 0), MainCall("dequeue", 1, 0),
     MainCall("dequeue", 1, 0), MainCall("destroy", 1, 0) >>

\* The caller runs main on a pool in which every fragment is free: the pool
\* as constructed, or the pool after up to MaxPrefix earlier calls that left
\* no queue behind (its free list may then be in another order).  run holds
\* the position in the script, the values printed and whether a call
\* reported an error.
InitWorkload ==
  /\ InitPool
  /\ rt = NoRoundTrip
  /\ run = [pc |-> 1, out |-> << >>, err |-> FALSE]

WorkloadBefore ==
  /\ run.pc = 1
  /\ calls < MaxPrefix
  /\ calls' = calls + 1
  /\ UNCHANGED <<rt, run>>
  /\ \E q \in Queues :
       \/ Create(q)
       \/ \E byte \in Bytes : Enqueue(q, byte)
       \/ Dequeue(q)
       \/ Destroy(q)

\* The next call of main.
WorkloadStep ==
  /\ run.pc <= Len(MainScript)
  /\ run.pc = 1 => \A q \in Queues : handle[q] = nullptr
  /\ LET c == MainScript[run.pc] IN
     /\ \/ c.op = "create" /\ Create(c.q)
        \/ c.op = "enqueue" /\ Enqueue(c.q, c.arg)
        \/ c.op = "dequeue" /\ Dequeue(c.q)
        \/ c.op = "destroy" /\ Destroy(c.q)
     /\ run' = [pc |-> run.pc + 1,
                out |-> IF c.op = "dequeue"
                        THEN Append(run.out, last'.ret) ELSE run.out,
                err |-> run.err \/ last'.err # "none"]
  /\ UNCHANGED <<calls, rt>>

NextWorkload == WorkloadBefore \/ WorkloadStep

SpecWorkload == InitWorkload /\ [][NextWorkload]_vars

\* C12 (reference workload): main, run on a pool in which every fragment is
\* free, prints 0 1, then 2 5, then 3 4 6; no call reports OutOfMemory or
\* EmptyQueue; and after the last call both pointers are empty and every
\* fragment of the pool is on the free list.
C12_ReferenceWorkload ==
  /\ ~run.err
  /\ run.out = SubSeq(<<0, 1, 2, 5, 3, 4, 6>>, 1, Len(run.out))
  /\ run.pc > 9 => Len(run.out) >= 2
  /\ run.pc > 13 => Len(run.out) >= 4
  /\ run.pc > Len(MainScript) =>
       /\ run.out = <<0, 1, 2, 5, 3, 4, 6>>
       /\ \A q \in Queues : handle[q] = nullptr
       /\ Len(FreeList) = NumFragments
       /\ Range(FreeList) = Fragments
       /\ \A f \in Fragments : ~IsUsedChunk(data[f])

\* main has run to its end on the pool as constructed; its last call,
\* destroy_queue(q1), found q1 drained by the three calls before it.
C12_Witness ==
  /\ run.pc = Len(MainScript) + 1
  /\ calls = 0
  /\ last.op = "destroy" /\ last.q = 1 /\ last.freed = 0
  /\ Len(run.out) = 7

\* The step is the k-th enqueue_byte of the round trip, and no enqueue_byte
\* of the round trip reported OutOfMemory before it.
RoundTripEnqueued(k) ==
  /\ rt.phase \in {"setup", "enqueue"}
  /\ ~rt.failed
  /\ Len(rt.sent) = k - 1
  /\ Len(rt'.sent) = k

\* C13 (segment boundary): when PayloadSize + 1 bytes are enqueued into q0
\* starting from an empty pointer, the first enqueue_byte is handed the one
\* fragment of the queue, the enqueue_byte calls up to the PayloadSize-th
\* are handed none and leave the queue with that one fragment, the next
\* enqueue_byte is handed exactly one fragment (the head of the free list)
\* which becomes the second and last fragment of the queue; and the
\* PayloadSize + 1 dequeue_byte calls that follow return the bytes in the
\* order they were enqueued.  (An enqueue_byte that needs a fragment gets it
\* when the free list is not empty.)
C13_SegmentBoundary ==
  /\ [][/\ (RoundTripEnqueued(1) /\ handle[0] = nullptr /\ FreeList # << >>)
            => /\ last'.err = "none" /\ last'.alloc
               /\ Chain(0)' = <<FreeList[1]>>
               /\ FreeList' = Tail(FreeList)
        /\ \A k \in 2 .. PayloadSize :
             RoundTripEnqueued(k)
               => /\ last'.err = "none" /\ ~last'.alloc
                  /\ Len(Chain(0)) = 1
                  /\ Chain(0)' = Chain(0)
                  /\ FreeList' = FreeList
        /\ (RoundTripEnqueued(PayloadSize + 1) /\ FreeList # << >>)
            => /\ last'.err = "none" /\ last'.alloc
               /\ Len(Chain(0)) = 1
               /\ Chain(0)' = Chain(0) \o <<FreeList[1]>>
               /\ FreeList' = Tail(FreeList)
       ]_vars
  /\ []((rt.n = PayloadSize + 1 /\ ~rt.failed /\ rt.phase \in {"dequeue", "done"})
          => /\ rt.got = SubSeq(rt.sent, 1, Len(rt.got))
             /\ Len(Chain(0)) = (IF rt.phase = "done" THEN 0
                                 ELSE IF Len(rt.got) < PayloadSize THEN 2
                                 ELSE 1)
             /\ rt.phase = "done" => rt.got = rt.sent)

\* PayloadSize + 1 bytes, not all the same, were enqueued into q0 starting
\* from an empty pointer and have all been dequeued, while q1 is live.
C13_Witness ==
  /\ run = NoRun
  /\ rt.phase = "done" /\ ~rt.failed
  /\ rt.n = PayloadSize + 1
  /\ Len(rt.got) = PayloadSize + 1
  /\ rt.sent[PayloadSize + 1] # rt.sent[1]
  /\ handle[1] # nullptr

\* ------------------------------------------------ recovery after OutOfMemory
\* A caller that makes up to MaxFill calls, then an enqueue_byte that
\* reports OutOfMemory, then calls destroy_queue or dequeue_byte on the
\* other queue, and, once these have given a fragment back, makes the
\* failed enqueue_byte call again.  run holds the phase, the pointer and the
\* byte of the failed call, the unread bytes of its queue at the time and
\* the number of fragments given back since.
InitRecovery ==
  /\ InitPool
  /\ rt = NoRoundTrip
  /\ run = [phase |-> "fill", q |-> 0, byte |-> 0, before |-> << >>,
            freed |-> 0]

RecoveryFill ==
  /\ run.phase = "fill"
  /\ calls < MaxFill
  /\ calls' = calls + 1
  /\ UNCHANGED <<rt, run>>
  /\ \E q \in Queues :
       \/ Create(q)
       \/ \E byte \in Bytes : Enqueue(q, byte)
       \/ Dequeue(q)
       \/ Destroy(q)

RecoveryFail(q, byte) ==
  /\ run.phase = "fill"
  /\ Enqueue(q, byte)
  /\ last'.err = "OutOfMemory"
  /\ run' = [phase |-> "failed", q |-> q, byte |-> byte,
             before |-> unread[q], freed |-> 0]
  /\ UNCHANGED <<calls, rt>>

RecoveryFree(p) ==
  /\ run.phase = "failed"
  /\ p # run.q
  /\ Destroy(p) \/ Dequeue(p)
  /\ run' = [run EXCEPT !.freed = @ + last'.freed]
  /\ UNCHANGED <<calls, rt>>

RecoveryRetry ==
  /\ run.phase = "failed"
  /\ run.freed >= 1
  /\ Enqueue(run.q, run.byte)
  /\ run' = [run EXCEPT !.phase = "done"]
  /\ UNCHANGED <<calls, rt>>

NextRecovery ==
  \/ RecoveryFill
  \/ \E q \in Queues : \E byte \in Bytes : RecoveryFail(q, byte)
  \/ \E p \in Queues : RecoveryFree(p)
  \/ RecoveryRetry

SpecRecovery == InitRecovery /\ [][NextRecovery]_vars

\* C14 (recovery after OutOfMemory): an enqueue_byte on q that reports
\* OutOfMemory leaves the queue of q with the unread bytes it had, also
\* while destroy_queue and dequeue_byte are called on the other queue; and
\* once these calls have given a fragment back to the pool, the same
\* enqueue_byte call succeeds, is handed a fragment, and the queue of q then
\* holds the unread bytes it had followed by the byte.
C14_RecoveryAfterOutOfMemory ==
  /\ run.phase = "failed" =>
       /\ Contents(run.q) = run.before
       /\ Len(FreeList) = run.freed
       /\ run.before = << >> <=> handle[run.q] = nullptr
  /\ run.phase = "done" =>
       /\ last.err = "none"
       /\ last.alloc
       /\ handle[run.q] # nullptr
       /\ Contents(run.q) = Append(run.before, run.byte)
       /\ Len(FreeList) = run.freed - 1

\* The failed enqueue_byte was made again with success on a queue that held
\* unread bytes, after dequeue_byte calls on the other queue gave the front
\* fragment of that queue back; the other queue is still live.
C14_Witness ==
  /\ run.phase = "done"
  /\ last.err = "none"
  /\ run.before # << >>
  /\ run.freed = 1
  /\ \E p \in Queues \ {run.q} : handle[p] # nullptr /\ unread[p] # << >>

\* C15 (the cached back fragment is the tail): for every pointer that is not
\* empty, the chain from the front fragment is acyclic, m_backFragmentIdx of
\* the front fragment is the index of the last fragment of the chain, and
\* m_nextFragmentIdx of that fragment is -1.  create_queue returns a
\* fragment that is its own back fragment; an enqueue_byte that links a new
\* back fragment writes its index into the front fragment and into the old
\* back fragment; a dequeue_byte that makes the next fragment the front
\* fragment copies m_backFragmentIdx of the old front fragment into it.
C15_BackFragmentIsTail ==
  /\ [](\A q \in Queues :
          handle[q] # nullptr =>
            /\ Chain(q) # << >>
            /\ NoDuplicates(Chain(q))
            /\ data[handle[q]].m_backFragmentIdx = Chain(q)[Len(Chain(q))]
            /\ data[Chain(q)[Len(Chain(q))]].m_nextFragmentIdx = -1)
  /\ [][\A q \in Queues :
          /\ (Called("create", q) /\ last'.err = "none")
               => data'[handle'[q]].m_backFragmentIdx = handle'[q]
          /\ (Called("enqueue", q) /\ last'.alloc /\ handle[q] # nullptr)
               => LET oldBack == data[handle[q]].m_backFragmentIdx
                      newBack == nextFreeFragment
                  IN /\ data'[handle'[q]].m_backFragmentIdx = newBack
                     /\ data'[oldBack].m_nextFragmentIdx = newBack
                     /\ data'[newBack].m_nextFragmentIdx = -1
                     /\ Chain(q)' = Chain(q) \o <<newBack>>
          /\ (Called("dequeue", q) /\ last'.freed = 1
                /\ handle'[q] # nullptr)
               => /\ handle'[q] = data[handle[q]].m_nextFragmentIdx
                  /\ data'[handle'[q]].m_backFragmentIdx =
                       data[handle[q]].m_backFragmentIdx
                  /\ Chain(q) = <<handle[q]>> \o Chain(q)'
       ]_vars

\* dequeue_byte made the second fragment of a queue its front fragment, and
\* that fragment is now also the back fragment; the other queue is live.
C15_Witness ==
  /\ last.op = "dequeue" /\ last.freed = 1
  /\ handle[last.q] # nullptr
  /\ data[handle[last.q]].m_backFragmentIdx = handle[last.q]
  /\ \E p \in Queues \ {last.q} : handle[p] # nullptr

\* C16 (the increment-then-empty branch of dequeue_byte): when dequeue_byte
\* reads a byte that is not at the last index of the front fragment,
\* increments m_frontItemIdx and finds the fragment logically empty (it
\* then deallocates the fragment and empties the pointer), the front
\* fragment has no next fragment: it is the whole chain, so every fragment
\* not on the free list afterwards is still in the chain of a queue.  A
\* front fragment that has a next fragment is not emptied by the increment.
C16_EmptyAfterIncrementOnlyAlone ==
  [][\A q \in Queues :
       ( /\ Called("dequeue", q) /\ last'.err = "none"
         /\ data[handle[q]].m_frontItemIdx # PayloadSize - 1 )
         => /\ handle'[q] = nullptr =>
                 /\ data[handle[q]].m_nextFragmentIdx = -1
                 /\ Chain(q) = <<handle[q]>>
                 /\ data[handle[q]].m_frontItemIdx =
                      data[handle[q]].m_backItemIdx
                 /\ last'.freed = 1
                 /\ FreeList' = <<handle[q]>> \o FreeList
                 /\ Len(FreeList') + InUse(Queues)' = NumFragments
            /\ data[handle[q]].m_nextFragmentIdx # -1 =>
                 /\ handle'[q] = handle[q]
                 /\ last'.freed = 0
    ]_vars

\* The third call was a dequeue_byte that read the only byte of a queue, at
\* index 0 of its fragment, and gave the fragment back; the other queue is
\* live.
C16_Witness ==
  /\ calls = 3
  /\ last.op = "dequeue" /\ last.err = "none" /\ last.freed = 1
  /\ handle[last.q] = nullptr
  /\ FreeList[1] = 1
  /\ \E p \in Queues \ {last.q} : handle[p] = 0

\* The item indices and the fragment indices a tracking byte may hold.
ItemIndices == -1 .. (PayloadSize - 1)

FragmentIndices == {-1} \cup Fragments

\* C17 (index bounds): in every fragment in use the two item indices are in
\* -1 .. PayloadSize - 1 and the two fragment indices are -1 or the index of
\* a fragment, and the payload has its PayloadSize bytes; a successful
\* dequeue_byte reads the byte it returns at m_frontItemIdx of the front
\* fragment, which is in 0 .. PayloadSize - 1; a successful enqueue_byte
\* writes its byte at the index that m_backItemIdx of the back fragment
\* then holds, which is in 0 .. PayloadSize - 1, and changes no other byte
\* of the payload of a fragment of the queue.
C17_IndexBounds ==
  /\ [](\A f \in Fragments :
          IsUsedChunk(data[f]) =>
            /\ data[f].m_frontItemIdx \in ItemIndices
            /\ data[f].m_backItemIdx \in ItemIndices
            /\ data[f].m_nextFragmentIdx \in FragmentIndices
            /\ data[f].m_backFragmentIdx \in FragmentIndices
            /\ DOMAIN data[f].bytes = 0 .. (PayloadSize - 1))
  /\ [][\A q \in Queues :
          /\ (Called("dequeue", q) /\ last'.err = "none")
               => /\ data[handle[q]].m_frontItemIdx \in 0 .. (PayloadSize - 1)
                  /\ last'.ret =
                       data[handle[q]].bytes[data[handle[q]].m_frontItemIdx]
          /\ (Called("enqueue", q) /\ last'.err = "none")
               => LET back == data'[handle'[q]].m_backFragmentIdx
                      item == data'[back].m_backItemIdx
                  IN /\ back \in Fragments
                     /\ item \in 0 .. (PayloadSize - 1)
                     /\ data'[back].bytes[item] = last'.arg
                     /\ last'.alloc => item = 0
                     /\ \A f \in Range(Chain(q)) :
                          \A i \in 0 .. (PayloadSize - 1) :
                            (f # back \/ i # item)
                              => data'[f].bytes[i] = data[f].bytes[i]
       ]_vars

\* enqueue_byte wrote the last byte of the payload of the second fragment
\* of a queue.
C17_Witness ==
  /\ last.op = "enqueue" /\ last.err = "none" /\ ~last.alloc
  /\ Len(Chain(last.q)) = 2
  /\ data[Chain(last.q)[2]].m_backItemIdx = PayloadSize - 1
  /\ data[Chain(last.q)[2]].bytes[PayloadSize - 1] = last.arg
  /\ last.arg # 0

\* ------------------------------------------------- the loop of destroy_queue
\* The iteration reading the next fragment after deallocate: the fragment
\* then holds its link of the free list, and the loop goes on with the
\* fragment that link names.
destroy_iteration_nextAfterFree(d, head, front) ==
  LET r == deallocate(d, head, front)
  IN [data |-> r.data, free |-> r.free, front |-> r.data[front].next]

\* One iteration of the loop of destroy_queue on the pool <<d, head>>, front
\* not nullptr: fragmentToDeallocate = front;
\* front = front->getNextFragment(); deallocate(fragmentToDeallocate).
destroy_iteration(d, head, front) ==
  LET next == getNextFragment(d[front])
      r == deallocate(d, head, front)
  IN [data |-> r.data, free |-> r.free, front |-> next]

\* A caller that makes up to MaxBefore calls and then calls destroy_queue,
\* whose loop is followed iteration by iteration (the pointer is passed by
\* reference: the loop moves the caller's pointer).  run holds the phase,
\* the pointer destroy_queue was called on, the number of iterations made,
\* and the pool, the pointer and the chain at the start of the call.
InitDestroy ==
  /\ InitPool
  /\ rt = NoRoundTrip
  /\ run = [phase |-> "calls", q |-> 0, n |-> 0, chain |-> << >>,
            start |-> [data |-> InitialData, free |-> 0, front |-> nullptr]]

DestroyBefore ==
  /\ run.phase = "calls"
  /\ calls < MaxBefore
  /\ calls' = calls + 1
  /\ UNCHANGED <<rt, run>>
  /\ \E q \in Queues :
       \/ Create(q)
       \/ \E byte \in Bytes : Enqueue(q, byte)
       \/ Dequeue(q)
       \/ Destroy(q)

\* destroy_queue(q) is called.
DestroyEnter(q) ==
  /\ run.phase = "calls"
  /\ run' = [phase |-> "loop", q |-> q, n |-> 0, chain |-> Chain(q),
             start |-> [data |-> data, free |-> nextFreeFragment,
                        front |-> handle[q]]]
  /\ UNCHANGED <<data, nextFreeFragment, handle, unread, offered, last,
                 calls, rt>>

\* while(front != nullptr) { ... }
DestroyIterate ==
  /\ run.phase = "loop"
  /\ handle[run.q] # nullptr
  /\ LET r == destroy_iteration(data, nextFreeFragment, handle[run.q]) IN
     /\ data' = r.data
     /\ nextFreeFragment' = r.free
     /\ handle' = [handle EXCEPT ![run.q] = r.front]
  /\ run' = [run EXCEPT !.n = @ + 1]
  /\ UNCHANGED <<unread, offered, last, calls, rt>>

\* The loop condition is false: destroy_queue returns.
DestroyReturn ==
  /\ run.phase = "loop"
  /\ handle[run.q] = nullptr
  /\ run' = [run EXCEPT !.phase = "done"]
  /\ unread' = [unread EXCEPT ![run.q] = << >>]
  /\ offered' = [offered EXCEPT ![run.q] = << >>]
  /\ last' = [op |-> "destroy", q |-> run.q, arg |-> 0, ret |-> 0,
              err |-> "none", alloc |-> FALSE, freed |-> run.n]
  /\ UNCHANGED <<data, nextFreeFragment, handle, calls, rt>>

NextDestroy ==
  \/ DestroyBefore
  \/ \E q \in Queues : DestroyEnter(q)
  \/ DestroyIterate
  \/ DestroyReturn

\* Once called, destroy_queue runs: its next step is taken.
SpecDestroy ==
  InitDestroy /\ [][NextDestroy]_vars
    /\ WF_vars(DestroyIterate) /\ WF_vars(DestroyReturn)

\* C18 (destroy_queue terminates): every call of destroy_queue returns; while
\* its loop runs, the fragment it is about to read the next index from and
\* deallocate is a fragment in use, the one that comes next in the chain the
\* queue had at the call, and the iterations made and the fragments still to
\* go add up to the length of that chain; so it returns after as many
\* iterations as the chain had fragments, at most NumFragments, with the
\* pool and the pointer that destroy_queue as a whole yields.
C18_DestroyTerminates ==
  /\ (run.phase = "loop") ~> (run.phase = "done")
  /\ [](run.phase \in {"loop", "done"} =>
          /\ run.n <= Len(run.chain)
          /\ Len(run.chain) <= NumFragments
          /\ Chain(run.q) =
               SubSeq(run.chain, run.n + 1, Len(run.chain))
          /\ \A i \in 1 .. run.n : ~IsUsedChunk(data[run.chain[i]])
          /\ handle[run.q] # nullptr =>
               /\ IsUsedChunk(data[handle[run.q]])
               /\ handle[run.q] = run.chain[run.n + 1]
          /\ run.phase = "done" =>
               LET r == destroy_queue(run.start.data, run.start.free,
                                      run.start.front)
               IN /\ run.n = Len(run.chain)
                  /\ handle[run.q] = nullptr
                  /\ data = r.data
                  /\ nextFreeFragment = r.free
                  /\ last.freed = r.freed)

\* destroy_queue returned after two iterations on a queue of two fragments,
\* while the other queue is live and holds an unread byte.
C18_Witness ==
  /\ run.phase = "done"
  /\ run.n = 2
  /\ Len(run.chain) = 2
  /\ \E p \in Queues \ {run.q} : handle[p] # nullptr /\ unread[p] # << >>

\* The number of unread bytes that the item indices of the chain of q stand
\* for: the items from the front item to the back item of the front
\* fragment, every item of the fragments in between, and the items up to the
\* back item of the back fragment.
CountedBytes(q) ==
  LET k == Len(Chain(q))
      front == data[Chain(q)[1]]
      back == data[Chain(q)[k]]
  IN IF k = 1
     THEN front.m_backItemIdx - front.m_frontItemIdx + 1
     ELSE (front.m_backItemIdx - front.m_frontItemIdx + 1)
            + PayloadSize * (k - 2) + (back.m_backItemIdx + 1)

\* C19 as stated: the number of unread bytes of every live queue is the
\* number its item indices stand for.
C19_CountOfEveryQueue ==
  \A q \in Queues :
    handle[q] # nullptr => Len(unread[q]) = CountedBytes(q)

\* C19 (chain shape), amended: for every pointer that is not empty, every
\* fragment of the chain that has a next fragment has its back item at the
\* last index, every fragment other than the front fragment has
\* m_frontItemIdx -1 and a back item index of at least 0, and the front
\* fragment either has 0 <= m_frontItemIdx <= m_backItemIdx, and then the
\* number of unread bytes of the queue is the number its item indices stand
\* for, or is the single fragment of a queue that create_queue returned and
\* that has received no byte, with both item indices -1 and no unread byte.
C19_ChainShape ==
  \A q \in Queues :
    handle[q] # nullptr =>
      LET c == Chain(q) IN
      /\ c # << >>
      /\ \A i \in 1 .. Len(c) :
           /\ data[c[i]].m_nextFragmentIdx # -1
                => data[c[i]].m_backItemIdx = PayloadSize - 1
           /\ i > 1 => /\ data[c[i]].m_frontItemIdx = -1
                       /\ data[c[i]].m_backItemIdx >= 0
      /\ IF data[c[1]].m_frontItemIdx = -1
         THEN /\ Len(c) = 1
              /\ data[c[1]].m_backItemIdx = -1
              /\ unread[q] = << >>
         ELSE /\ 0 <= data[c[1]].m_frontItemIdx
              /\ data[c[1]].m_frontItemIdx <= data[c[1]].m_backItemIdx
              /\ Len(unread[q]) = CountedBytes(q)

\* A queue of three fragments whose front item is item 1 of the front
\* fragment.
C19_Witness ==
  \E q \in Queues :
    /\ Len(Chain(q)) = 3
    /\ data[handle[q]].m_frontItemIdx = 1
    /\ Len(unread[q]) = PayloadSize + 2

\* C20 (the emptiness test between calls): between calls no fragment in use
\* has m_backItemIdx < m_frontItemIdx; so when dequeue_byte is called on a
\* pointer that is not empty, it reports EmptyQueue exactly if
\* m_frontItemIdx of the front fragment is -1, and then the fragment is the
\* one create_queue returned, with no byte received.  The test
\* m_backItemIdx < m_frontItemIdx becomes true only inside dequeue_byte,
\* when the increment moves the front item past the back item, and that
\* call deallocates the fragment before it returns.
C20_EmptinessBetweenCalls ==
  /\ [](\A f \in Fragments :
          IsUsedChunk(data[f]) =>
            ~(data[f].m_backItemIdx < data[f].m_frontItemIdx))
  /\ [][\A q \in Queues :
          (Called("dequeue", q) /\ handle[q] # nullptr) =>
            LET front == data[handle[q]] IN
            /\ last'.err = "EmptyQueue" <=> front.m_frontItemIdx = -1
            /\ front.m_frontItemIdx = -1 =>
                 /\ front = UsedChunk(handle[q], -1, -1, -1, clearBytes)
                 /\ unread[q] = << >>
            /\ ( /\ front.m_frontItemIdx # -1
                 /\ front.m_frontItemIdx # PayloadSize - 1
                 /\ front.m_backItemIdx < front.m_frontItemIdx + 1 )
                 => /\ last'.err = "none"
                    /\ last'.freed = 1
                    /\ handle'[q] = nullptr
                    /\ ~IsUsedChunk(data'[handle[q]])
       ]_vars

\* The first two calls were an enqueue_byte on an empty pointer and a
\* dequeue_byte on the queue it made: the increment moved the front item
\* past the back item and the fragment was deallocated.
C20_Witness ==
  /\ calls = 2
  /\ last.op = "dequeue" /\ last.err = "none" /\ last.freed = 1
  /\ \A q \in Queues : handle[q] = nullptr
  /\ Len(FreeList) = NumFragments /\ FreeList[1] = 0

====
